---- MODULE Spec2Model ----
(***************************************************************************)
(* Model of src/main.py: the step-end capture hook with human-in-the-loop  *)
(* login handling (create_capture_hook / on_step_end), the per-task        *)
(* episode (execute_task) and the batch loop over the task list (main).    *)
(*                                                                         *)
(* The program is one asyncio flow of control; pc is its position.  The    *)
(* browser_use driver (Agent, Browser) is external: each of its calls      *)
(* either returns or raises, chosen nondeterministically.                  *)
(***************************************************************************)
EXTENDS Integers, Sequences, FiniteSets, TLC

\* ---------------------------------------------------------------- bounds
\* number of queued tasks (main.py lists five; the loop is uniform in them)
NumTasks == 2
\* max_steps handed to agent.run (execute_task defaults it to 25)
MaxSteps == 3

\* ------------------------------------------------------------- strings
\* A string is a sequence of one-character strings.
None == <<"<None>">>

UpperCase == <<"A","B","C","D","E","F","G","H","I","J","K","L","M",
               "N","O","P","Q","R","S","T","U","V","W","X","Y","Z">>
LowerCase == <<"a","b","c","d","e","f","g","h","i","j","k","l","m",
               "n","o","p","q","r","s","t","u","v","w","x","y","z">>

\* str.lower() on one character
LowerChar(c) ==
    IF \E i \in 1..26 : UpperCase[i] = c
    THEN LowerCase[CHOOSE i \in 1..26 : UpperCase[i] = c]
    ELSE c

\* str.lower()
Lower(s) == [i \in 1..Len(s) |-> LowerChar(s[i])]

\* Python's  p in s  on strings: p is a contiguous substring of s
Contains(s, p) ==
    \E k \in 0..(Len(s) - Len(p)) :
        \A i \in 1..Len(p) : s[k + i] = p[i]

LOGIN_URL_PATTERNS ==
    { <<"l","o","g","i","n">>,
      <<"s","i","g","n","i","n">>,
      <<"s","i","g","n","-","i","n">>,
      <<"s","i","g","n","_","i","n">>,
      <<"a","u","t","h">>,
      <<"a","u","t","h","e","n","t","i","c","a","t","e">>,
      <<"o","a","u","t","h">>,
      <<"s","i","g","n","u","p">> }

LOGIN_PAGE_INDICATORS ==
    { <<"p","a","s","s","w","o","r","d">>,
      <<"e","m","a","i","l">>,
      <<"u","s","e","r","n","a","m","e">>,
      <<"s","i","g","n"," ","i","n">>,
      <<"l","o","g"," ","i","n">>,
      <<"f","o","r","g","o","t"," ","p","a","s","s","w","o","r","d">>,
      <<"c","r","e","a","t","e"," ","a","c","c","o","u","n","t">>,
      <<"r","e","g","i","s","t","e","r">>,
      <<"s","i","g","n","u","p">> }

is_login_page(url, title) ==
    LET url_lower   == Lower(url)
        title_lower == Lower(title)
    IN  \/ \E pattern \in LOGIN_URL_PATTERNS : Contains(url_lower, pattern)
        \/ \E indicator \in LOGIN_PAGE_INDICATORS : Contains(title_lower, indicator)

\* f"step_{step_num:03d}.png": at least three decimal digits, zero padded
RECURSIVE Digits(_)
Digits(n) == IF n < 10 THEN <<n>> ELSE Digits(n \div 10) \o <<n % 10>>

Pad3(n) ==
    LET d == Digits(n)
    IN  IF Len(d) >= 3 THEN d ELSE [i \in 1..(3 - Len(d)) |-> 0] \o d

\* variant: f"step_{step_num}.png", no padding
FileNameUnpadded(step_num) == <<"step_">> \o Digits(step_num) \o <<".png">>

FileName(step_num) == <<"step_">> \o Pad3(step_num) \o <<".png">>

\* ------------------------------------------------- what the driver reports
\* One observation of the browser: the state summary's url (None when the
\* summary itself is None) and the page title (None or empty when missing).
Observations ==
    { [url |-> <<"/","b","o","a","r","d">>, title |-> <<"T","e","a","m">>],
      [url |-> <<"/","L","O","G","I","N">>, title |-> <<>>],
      [url |-> <<"/","x">>,                 title |-> <<"S","i","g","n"," ","I","n">>],
      [url |-> None,                        title |-> None] }

\* agent.history.model_actions(): empty, or ending in a named action
ModelActions == { <<>>, <<"click">> }

\* what the ScreenshotEvent hands back: raw bytes, base64 text, or
\* something whose str() is not valid base64
ScreenshotResults == { "bytes", "b64str", "undecodable" }

\* ------------------------------------------------------------ data model
\* CapturedStep(...) with the defaults of the class
CapturedStep(step_number, action_type, url, page_title, screenshot, duration_ms, required_manual_login) ==
    [ step_number           |-> step_number,
      action_type           |-> action_type,
      url                   |-> url,
      page_title            |-> page_title,
      screenshot            |-> screenshot,
      duration_ms           |-> duration_ms,
      success               |-> TRUE,
      error_message         |-> None,
      required_manual_login |-> required_manual_login ]

\* CapturedWorkflow(...) with the defaults of the class; task_id 0 stands
\* for "no workflow object" (before the first task, or no trace file).
\* Times are counted on the episode's own clock, started_at being 0.
CapturedWorkflow(task_id) ==
    [ task_id                |-> task_id,
      started_at             |-> 0,
      completed_at           |-> -1,
      total_duration_seconds |-> -1,
      success                |-> FALSE,
      steps                  |-> <<>>,
      final_result           |-> None,
      error_summary          |-> None ]

NoWorkflow == CapturedWorkflow(0)

\* the closure state of create_capture_hook
NewStepData ==
    [ count             |-> 0,
      step_start_time   |-> FALSE,
      login_handled     |-> FALSE,
      waiting_for_login |-> FALSE ]

VARIABLES
    pc,            \* position of the single flow of control
    taskIdx,       \* index of the task the for loop of main is at
    workflow,      \* the CapturedWorkflow of the episode in flight
    step_data,     \* the hook's closure state
    local,         \* on_step_end locals: step_num, current_url, current_title
    agent,         \* driver: paused flag, steps issued by run()
    output_files,  \* screenshot files in the episode's output_dir
    clock,         \* datetime.now() as read by execute_task's terminal code
    exc,           \* the exception execute_task's except clause caught
    result,        \* what agent.run returned
    trace_files,   \* per task: what its workflow.json says, once written
    kills,         \* number of browser.kill() calls
    errors         \* which "Capture error" lines this episode has printed

vars == << pc, taskIdx, workflow, step_data, local, agent, output_files,
           clock, exc, result, trace_files, kills, errors >>

\* What the model keeps of a written workflow.json.  The program never
\* reads a trace back, so only the terminal fields are kept, and whether
\* the trace holds a manual-login record.
TraceOf(w) ==
    [ written       |-> TRUE,
      success       |-> w.success,
      completed     |-> w.completed_at # -1,
      error_summary |-> w.error_summary,
      manual_login  |-> \E i \in 1..Len(w.steps) : w.steps[i].required_manual_login ]

NoTrace == [ written |-> FALSE, success |-> FALSE, completed |-> FALSE,
             error_summary |-> None, manual_login |-> FALSE ]

\* line 229 prints the error; kept per episode as the kinds printed so far
NoErrors == [ observation |-> FALSE, handoff |-> FALSE, input |-> FALSE ]

NoLocal == [ step_num |-> 0, current_url |-> None, current_title |-> None ]
NewAgent == [ paused |-> FALSE, n_steps |-> 0 ]

Init ==
    /\ pc = "main"
    /\ taskIdx = 1
    /\ workflow = NoWorkflow
    /\ step_data = NewStepData
    /\ local = NoLocal
    /\ agent = NewAgent
    /\ output_files = {}
    /\ clock = 0
    /\ exc = None
    /\ result = "none"
    /\ trace_files = [t \in 1..NumTasks |-> NoTrace]
    /\ kills = 0
    /\ errors = NoErrors

\* ------------------------------------------------------------------ main
\* variant: login_handled lives at module level and survives the episode
StartTaskSharedLatch ==
    /\ pc = "main"
    /\ taskIdx <= NumTasks
    /\ workflow' = CapturedWorkflow(taskIdx)
    /\ step_data' = [NewStepData EXCEPT !.login_handled =
                        \E t \in 1..NumTasks : trace_files[t].manual_login]
    /\ local' = NoLocal
    /\ output_files' = {}
    /\ clock' = 0
    /\ exc' = None
    /\ result' = "none"
    /\ errors' = NoErrors
    /\ pc' = "construct_agent"
    /\ UNCHANGED << taskIdx, agent, trace_files, kills >>

\* for task in tasks: execute_task(...) up to create_capture_hook
StartTask ==
    /\ pc = "main"
    /\ taskIdx <= NumTasks
    /\ workflow' = CapturedWorkflow(taskIdx)
    /\ step_data' = NewStepData
    /\ local' = NoLocal
    /\ output_files' = {}
    /\ clock' = 0
    /\ exc' = None
    /\ result' = "none"
    /\ errors' = NoErrors
    /\ pc' = "construct_agent"
    /\ UNCHANGED << taskIdx, agent, trace_files, kills >>

\* agent = Agent(...) returns
AgentConstructed ==
    /\ pc = "construct_agent"
    /\ agent' = NewAgent
    /\ pc' = "run"
    /\ UNCHANGED << taskIdx, workflow, step_data, local, output_files,
                    clock, exc, result, trace_files, kills, errors >>

\* agent = Agent(...) raises: outside the try, so the exception leaves
\* execute_task, the for loop and main
AgentConstructRaises ==
    /\ pc = "construct_agent"
    /\ pc' = "crashed"
    /\ UNCHANGED << taskIdx, workflow, step_data, local, agent, output_files,
                    clock, exc, result, trace_files, kills, errors >>

\* ------------------------------------------------------- the driver's run
\* agent.run() begins a step and awaits on_step_start
on_step_start ==
    /\ pc = "run"
    /\ ~agent.paused
    /\ agent.n_steps < MaxSteps
    /\ agent' = [agent EXCEPT !.n_steps = @ + 1]
    /\ step_data' = [step_data EXCEPT !.step_start_time = TRUE]
    /\ pc' = "step"
    /\ UNCHANGED << taskIdx, workflow, local, output_files, clock, exc,
                    result, trace_files, kills, errors >>

\* --------------------------------------------------------- on_step_end
\* lines 139-140: the counter moves before the try
OnStepEndEnter ==
    /\ pc = "step"
    /\ step_data' = [step_data EXCEPT !.count = @ + 1]
    /\ local' = [NoLocal EXCEPT !.step_num = step_data.count + 1]
    /\ pc' = "observe"
    /\ UNCHANGED << taskIdx, workflow, agent, output_files, clock, exc,
                    result, trace_files, kills, errors >>

\* variant: the hook has no except clause and the error reaches agent.run
HookPropagates ==
    /\ pc' = "except"
    /\ exc' = <<"capture">>
    /\ UNCHANGED << taskIdx, workflow, output_files, clock, result,
                    trace_files, kills >>

\* except Exception as e: print(...)  -- the hook returns to the driver
HookSwallows ==
    /\ pc' = "run"
    /\ UNCHANGED << taskIdx, workflow, output_files, clock, exc, result,
                    trace_files, kills >>

\* get_browser_state_summary() or get_current_page_title() raises
ObserveRaises ==
    /\ pc = "observe"
    /\ HookSwallows
    /\ errors' = [errors EXCEPT !.observation = TRUE]
    /\ UNCHANGED << step_data, local, agent >>

\* state.url if state else "unknown"
UrlOf(obs) == IF obs.url = None THEN <<"u","n","k","n","o","w","n">> ELSE obs.url

\* get_current_page_title() or "untitled"
TitleOf(obs) ==
    IF obs.title = None \/ obs.title = <<>>
    THEN <<"u","n","t","i","t","l","e","d">> ELSE obs.title

\* variant: line 147 without "and not step_data['login_handled']"
NeedsHandoffEveryMatch(url, title, sd) == is_login_page(url, title)

\* line 147: the condition under which the hook hands over to the human
NeedsHandoff(url, title, sd) == is_login_page(url, title) /\ ~sd.login_handled

\* lines 143-148: address and title are read and classified
Observe ==
    /\ pc = "observe"
    /\ \E obs \in Observations :
        LET current_url   == UrlOf(obs)
            current_title == TitleOf(obs)
        IN  /\ local' = [local EXCEPT !.current_url = current_url,
                                      !.current_title = current_title]
            /\ IF NeedsHandoff(current_url, current_title, step_data)
               THEN /\ step_data' = [step_data EXCEPT !.waiting_for_login = TRUE]
                    /\ pc' = "pause"
               ELSE /\ step_data' = step_data
                    /\ pc' = "screenshot"
    /\ UNCHANGED << taskIdx, workflow, agent, output_files, clock, exc,
                    result, trace_files, kills, errors >>

\* line 159: agent.pause() returns
PauseOk ==
    /\ pc = "pause"
    /\ agent' = [agent EXCEPT !.paused = TRUE]
    /\ pc' = "await_input"
    /\ UNCHANGED << taskIdx, workflow, step_data, local, output_files, clock,
                    exc, result, trace_files, kills, errors >>

\* line 159: agent.pause() raises
PauseRaises ==
    /\ pc = "pause"
    /\ HookSwallows
    /\ errors' = [errors EXCEPT !.handoff = TRUE]
    /\ UNCHANGED << step_data, local, agent >>

\* line 161: the operator presses ENTER
InputAck ==
    /\ pc = "await_input"
    /\ pc' = "resume"
    /\ UNCHANGED << taskIdx, workflow, step_data, local, agent, output_files,
                    clock, exc, result, trace_files, kills, errors >>

\* line 161: input() raises EOFError (stdin closed)
InputRaises ==
    /\ pc = "await_input"
    /\ HookSwallows
    /\ errors' = [errors EXCEPT !.input = TRUE]
    /\ UNCHANGED << step_data, local, agent >>

\* variant: the handoff record names a screenshot file
ManualStepWithShot(step_num, url, title) ==
    CapturedStep(step_num, "manual_login", url, title, FileName(step_num), None, TRUE)

\* lines 170-179: the record of the handoff
ManualStep(step_num, url, title) ==
    CapturedStep(step_num, "manual_login", url, title, <<>>, None, TRUE)

\* variant: line 165 is missing, the latch stays open
ResumeOkNoLatch ==
    /\ pc = "resume"
    /\ agent' = [agent EXCEPT !.paused = FALSE]
    /\ step_data' = [step_data EXCEPT !.waiting_for_login = FALSE]
    /\ workflow' = [workflow EXCEPT !.steps =
            Append(@, ManualStep(local.step_num, local.current_url,
                                 local.current_title))]
    /\ pc' = "run"
    /\ UNCHANGED << taskIdx, local, output_files, clock, exc, result,
                    trace_files, kills, errors >>

\* lines 163-180: agent.resume() returns, the latch is set, the manual
\* record is appended and the hook returns
ResumeOk ==
    /\ pc = "resume"
    /\ agent' = [agent EXCEPT !.paused = FALSE]
    /\ step_data' = [step_data EXCEPT !.login_handled = TRUE,
                                      !.waiting_for_login = FALSE]
    /\ workflow' = [workflow EXCEPT !.steps =
            Append(@, ManualStep(local.step_num, local.current_url,
                                 local.current_title))]
    /\ pc' = "run"
    /\ UNCHANGED << taskIdx, local, output_files, clock, exc, result,
                    trace_files, kills, errors >>

\* variant: the latch is set before resume() is called, so it stays set
\* when resume() raises
ResumeRaisesLatched ==
    /\ pc = "resume"
    /\ HookSwallows
    /\ errors' = [errors EXCEPT !.handoff = TRUE]
    /\ step_data' = [step_data EXCEPT !.login_handled = TRUE]
    /\ UNCHANGED << local, agent >>

\* line 163: agent.resume() raises
ResumeRaises ==
    /\ pc = "resume"
    /\ HookSwallows
    /\ errors' = [errors EXCEPT !.handoff = TRUE]
    /\ UNCHANGED << step_data, local, agent >>

\* lines 182-188: dispatching or awaiting the ScreenshotEvent raises
ScreenshotRaises ==
    /\ pc = "screenshot"
    /\ HookSwallows
    /\ errors' = [errors EXCEPT !.observation = TRUE]
    /\ UNCHANGED << step_data, local, agent >>

\* lines 190-195: base64.b64decode raises on text that is not base64
DecodeRaises(screenshot_result) == screenshot_result = "undecodable"

\* lines 200-209: the label of the last model action
ActionType(actions) == IF Len(actions) > 0 THEN actions[Len(actions)] ELSE "initial"

\* lines 211-213
DurationMs(sd) == IF sd.step_start_time THEN <<"ms">> ELSE None

\* lines 215-224: the record of an ordinary capture
OrdinaryStep(step_num, action_type, url, title, filename, duration_ms) ==
    CapturedStep(step_num, action_type, url, title, filename, duration_ms, FALSE)

\* lines 186-226: the screenshot arrives; it is decoded, written under the
\* step's file name, and the record is appended
Capture ==
    /\ pc = "screenshot"
    /\ \E screenshot_result \in ScreenshotResults, actions \in ModelActions :
         IF DecodeRaises(screenshot_result)
         THEN /\ HookSwallows
              /\ errors' = [errors EXCEPT !.observation = TRUE]
              /\ UNCHANGED << step_data, local, agent >>
         ELSE LET filename == FileName(local.step_num)
              IN  /\ output_files' = output_files \cup {filename}
                  /\ workflow' = [workflow EXCEPT !.steps =
                        Append(@, OrdinaryStep(local.step_num, ActionType(actions),
                                               local.current_url, local.current_title,
                                               filename, DurationMs(step_data)))]
                  /\ pc' = "run"
                  /\ UNCHANGED << taskIdx, step_data, local, agent, clock, exc,
                                  result, trace_files, kills, errors >>

\* ------------------------------------------------ agent.run() terminates
\* what run() hands back: an empty history, a history that ends in "done",
\* or a history cut off by max_steps (run() reports that in the history and
\* returns; it does not raise)
RunResult(a) ==
    IF a.n_steps = 0 THEN {"empty"}
    ELSE IF a.n_steps >= MaxSteps THEN {"done", "max_steps"}
    ELSE {"done"}

\* line 279: agent.run() returns
RunReturns ==
    /\ pc = "run"
    /\ ~agent.paused
    /\ \E r \in RunResult(agent) : result' = r
    /\ pc' = "returned"
    /\ UNCHANGED << taskIdx, workflow, step_data, local, agent, output_files,
                    clock, exc, trace_files, kills, errors >>

\* line 279: agent.run() raises
RunRaises ==
    /\ pc = "run"
    /\ exc' = <<"run">>
    /\ pc' = "except"
    /\ UNCHANGED << taskIdx, workflow, step_data, local, agent, output_files,
                    clock, result, trace_files, kills, errors >>

\* lines 285-286
SuccessWrite ==
    /\ pc = "returned"
    /\ clock' = clock + 1
    /\ workflow' = [workflow EXCEPT !.completed_at = clock + 1,
                                    !.success = TRUE]
    /\ pc' = "final_result"
    /\ UNCHANGED << taskIdx, step_data, local, agent, output_files, exc,
                    result, trace_files, kills, errors >>

\* str(result) if result else "Completed"
FinalResult(r) == IF r = "empty" THEN <<"Completed">> ELSE <<"str", r>>

\* lines 287-291
FinalResultOk ==
    /\ pc = "final_result"
    /\ workflow' = [workflow EXCEPT
            !.final_result = FinalResult(result),
            !.total_duration_seconds = workflow.completed_at - workflow.started_at]
    /\ pc' = "persist"
    /\ UNCHANGED << taskIdx, step_data, local, agent, output_files, clock,
                    exc, result, trace_files, kills, errors >>

\* line 287: str(result) raises inside the try, after lines 285-286
FinalResultRaises ==
    /\ pc = "final_result"
    /\ result # "empty"
    /\ exc' = <<"str">>
    /\ pc' = "except"
    /\ UNCHANGED << taskIdx, workflow, step_data, local, agent, output_files,
                    clock, result, trace_files, kills, errors >>

\* variant: line 297 is missing
ExceptBranchNoSummary ==
    /\ pc = "except"
    /\ clock' = clock + 1
    /\ workflow' = [workflow EXCEPT !.completed_at = clock + 1,
                                    !.success = FALSE]
    /\ pc' = "persist"
    /\ UNCHANGED << taskIdx, step_data, local, agent, output_files, exc,
                    result, trace_files, kills, errors >>

\* lines 293-297
ExceptBranch ==
    /\ pc = "except"
    /\ clock' = clock + 1
    /\ workflow' = [workflow EXCEPT !.completed_at = clock + 1,
                                    !.success = FALSE,
                                    !.error_summary = exc]
    /\ pc' = "persist"
    /\ UNCHANGED << taskIdx, step_data, local, agent, output_files, exc,
                    result, trace_files, kills, errors >>

\* lines 299-305: workflow.json is written and execute_task returns; its
\* locals, the hook's closure and the agent go out of scope
Persist ==
    /\ pc = "persist"
    /\ trace_files' = [trace_files EXCEPT ![taskIdx] = TraceOf(workflow)]
    /\ workflow' = NoWorkflow
    /\ step_data' = NewStepData
    /\ local' = NoLocal
    /\ agent' = NewAgent
    /\ output_files' = {}
    /\ clock' = 0
    /\ exc' = None
    /\ result' = "none"
    /\ errors' = NoErrors
    /\ pc' = "sleep"
    /\ UNCHANGED << taskIdx, kills >>

\* line 352 and the next round of the for loop
NextTask ==
    /\ pc = "sleep"
    /\ taskIdx' = taskIdx + 1
    /\ pc' = "main"
    /\ UNCHANGED << workflow, step_data, local, agent, output_files, clock,
                    exc, result, trace_files, kills, errors >>

\* lines 354-356: the loop is over
BrowserKill ==
    /\ pc = "main"
    /\ taskIdx > NumTasks
    /\ kills' = kills + 1
    /\ pc' = "done"
    /\ UNCHANGED << taskIdx, workflow, step_data, local, agent, output_files,
                    clock, exc, result, trace_files, errors >>

Next ==
    \/ StartTask
    \/ AgentConstructed
    \/ AgentConstructRaises
    \/ on_step_start
    \/ OnStepEndEnter
    \/ ObserveRaises
    \/ Observe
    \/ PauseOk
    \/ PauseRaises
    \/ InputAck
    \/ InputRaises
    \/ ResumeOk
    \/ ResumeRaises
    \/ ScreenshotRaises
    \/ Capture
    \/ RunReturns
    \/ RunRaises
    \/ SuccessWrite
    \/ FinalResultOk
    \/ FinalResultRaises
    \/ ExceptBranch
    \/ Persist
    \/ NextTask
    \/ BrowserKill

Spec == Init /\ [][Next]_vars

\* the process has ended, by return of main or by an escaping exception
Terminated == pc \in {"done", "crashed"}

\* ================================================================ claims
steps == workflow.steps

ManualRecords == { i \in 1..Len(steps) : steps[i].required_manual_login }

\* C1: in every episode the ordinals of the trace are 1..len(steps):
\* steps[i].step_number = i+1 (0-based i), whatever notifications failed.
C1_OrdinalsAreIndexes ==
    \A i \in 1..Len(steps) : steps[i].step_number = i

\* C2: however often the classifier matches, the trace of an episode holds
\* at most one record with required_manual_login = true.
C2_AtMostOneManualRecord == Cardinality(ManualRecords) <= 1

\* the classifier matched again after the handoff: a later record of the
\* same episode shows a login page and is an ordinary one
C2_Witness ==
    \E i, j \in 1..Len(steps) :
        /\ i < j
        /\ steps[i].required_manual_login
        /\ is_login_page(steps[j].url, steps[j].page_title)
        /\ ~steps[j].required_manual_login

\* the record a step of the hook has just appended
Appended == steps'[Len(steps')]
Appends == workflow'.task_id = workflow.task_id /\ Len(steps') = Len(steps) + 1

C3_Step ==
    /\ (Appends /\ pc = "resume") =>
          /\ Appended.screenshot = <<>>
          /\ Appended.required_manual_login
          /\ Appended.success
          /\ Appended.action_type = "manual_login"
    /\ (Appends /\ pc = "screenshot") =>
          /\ ~Appended.required_manual_login
          /\ Appended.screenshot # <<>>
    /\ Appends => pc \in {"resume", "screenshot"}

\* C3: a record appended by the handoff has an empty screenshot,
\* required_manual_login = true and success = true; a record appended by
\* the ordinary capture has required_manual_login = false; so the flag is
\* true exactly for the manual-checkpoint record.
C3_ManualFlagExactlyOnHandoff == [][C3_Step]_vars

\* a trace that holds a handoff record and an ordinary record
C3_Witness ==
    /\ \E i \in 1..Len(steps) : steps[i].required_manual_login
    /\ \E i \in 1..Len(steps) : ~steps[i].required_manual_login

C4_Step ==
    (workflow.completed_at # -1 /\ workflow'.task_id = workflow.task_id) =>
        /\ workflow'.completed_at = workflow.completed_at
        /\ workflow'.success = workflow.success

\* C4: completed_at is assigned at most once and neither completed_at nor
\* success is overwritten once set, on every path through execute_task.
C4_TerminalFieldsWrittenOnce == [][C4_Step]_vars

\* C5: when the process has ended, every queued task has a persisted trace,
\* however earlier episodes ended, and each failed one carries success =
\* false with an error summary.
C5_EveryTaskPersisted ==
    Terminated =>
        \A t \in 1..NumTasks :
            /\ trace_files[t].written
            /\ ~trace_files[t].success => trace_files[t].error_summary # None

\* the episode of task t has been started: its workflow object exists
Started(t) == t < taskIdx \/ (t = taskIdx /\ pc # "main")

\* C6: every episode that was started ends with its trace file written,
\* carrying its terminal state.
C6_StartedEpisodeIsWritten ==
    Terminated =>
        \A t \in 1..NumTasks :
            Started(t) => trace_files[t].written /\ trace_files[t].completed

\* C7: if pause() or resume() raised during a handoff, the episode is
\* finalized as failed: at the time the trace is written success = false
\* and the error is in error_summary.
C7_HandoffErrorFailsEpisode ==
    (pc = "persist" /\ errors.handoff) =>
        ~workflow.success /\ workflow.error_summary # None

C8_Step ==
    pc \in {"observe", "screenshot"} =>
        /\ pc' \in {"pause", "screenshot", "run"}
        /\ exc' = None
        /\ workflow'.completed_at = -1
        /\ workflow'.error_summary = None

\* C8: an observation failure at a step boundary never terminates the
\* episode: from reading the page or taking the screenshot the hook goes on
\* or returns to the driver's run loop; no exception reaches execute_task
\* and the terminal fields stay untouched.
C8_ObservationFailureIsLocal == [][C8_Step]_vars

\* after an observation failure a later notification of the same episode
\* was processed and recorded, and the run ended as a success
C8_Witness ==
    /\ pc = "persist"
    /\ errors.observation
    /\ ~errors.handoff
    /\ workflow.success
    /\ Len(steps) > 0
    /\ steps[Len(steps)].step_number > Len(steps)

\* C9: every step-end notification yields exactly one record, a failed
\* capture being recorded as a failed step: whenever the hook has returned
\* the trace has as many records as there were notifications.
C9_OneRecordPerNotification ==
    pc = "run" => Len(steps) = step_data.count

\* C10: an episode whose run raised, or used up max_steps without
\* finishing, is written as failed: success = false with an error summary.
C10_RaisedOrExhaustedIsFailed ==
    (pc = "persist" /\ (exc # None \/ result = "max_steps")) =>
        ~workflow.success /\ workflow.error_summary # None

\* the classifier's verdict on the page a record was taken on
MatchedAt(i) == is_login_page(steps[i].url, steps[i].page_title)

\* an episode of exactly three notifications, none of which printed a
\* capture error, whose run returned and reached the write of the trace
C11_Scenario ==
    /\ pc = "persist"
    /\ exc = None
    /\ step_data.count = 3
    /\ errors = NoErrors

\* C11: in an episode of exactly 3 step-end notifications where the
\* classifier first matches at step 2, nothing fails and the run returns,
\* the trace has exactly 3 records; record 2 is the manual one with an
\* empty screenshot; records 1 and 3 carry screenshots (record 3 even if
\* its page still matches); success is true and completed_at is set.
C11_ThreeStepEpisode ==
    C11_Scenario =>
        /\ Len(steps) = 3
        /\ (~MatchedAt(1) /\ MatchedAt(2)) =>
              /\ steps[2].required_manual_login
              /\ steps[2].screenshot = <<>>
              /\ ~steps[1].required_manual_login
              /\ steps[1].screenshot # <<>>
              /\ ~steps[3].required_manual_login
              /\ steps[3].screenshot # <<>>
              /\ workflow.success
              /\ workflow.completed_at # -1

\* the scenario, with the page of step 3 still matching the classifier
C11_Witness ==
    /\ C11_Scenario
    /\ Len(steps) = 3
    /\ ~MatchedAt(1)
    /\ MatchedAt(2)
    /\ MatchedAt(3)

\* C12: the shared browser is released exactly once, only after the last
\* queued task's episode has ended and never while an episode is in
\* flight, and the release happens however the episodes failed: when the
\* process has ended, browser.kill() has been called once.
C12_ReleasedExactlyOnce ==
    /\ kills <= 1
    /\ kills = 1 => (pc = "done" /\ taskIdx > NumTasks)
    /\ Terminated => kills = 1

\* ------------------------------------------------ the classifier alone
\* Arguments a caller can hand to is_login_page; None is a missing one.
ClassifierUrls ==
    { None,
      <<>>,
      <<"/","l","o","g","i","n">>,
      <<"/","L","O","G","I","N">>,
      <<"/","b","o","a","r","d">>,
      <<"/","O","A","u","t","h","2">>,
      <<"/","x">>,
      <<"/","S","i","g","n","-","I","n">>,
      <<"/","a","u","t","h","o","r">> }

ClassifierTitles ==
    { None,
      <<>>,
      <<"T","e","a","m">>,
      <<"S","i","g","n"," ","I","n">>,
      <<"P","A","S","S","W","O","R","D">>,
      <<"L","o","g"," ","i","n">>,
      <<"x">>,
      <<"I","n","b","o","x">> }

\* lines 109-110: .lower() is called on both arguments as they come; None
\* has no such method (AttributeError)
IsLoginPageRaises(url, title) == url = None \/ title = None

\* a call is_login_page(url, title) about to be made
ClassifierInit ==
    /\ pc = "classify"
    /\ \E u \in ClassifierUrls, t \in ClassifierTitles :
          local = [NoLocal EXCEPT !.current_url = u, !.current_title = t]
    /\ taskIdx = 1
    /\ workflow = NoWorkflow
    /\ step_data = NewStepData
    /\ agent = NewAgent
    /\ output_files = {}
    /\ clock = 0
    /\ exc = None
    /\ result = "none"
    /\ trace_files = [t \in 1..NumTasks |-> NoTrace]
    /\ kills = 0
    /\ errors = NoErrors

\* lines 109-120: the call returns True or False
ClassifyReturns ==
    /\ pc = "classify"
    /\ ~IsLoginPageRaises(local.current_url, local.current_title)
    /\ result' = IF is_login_page(local.current_url, local.current_title)
                 THEN "True" ELSE "False"
    /\ pc' = "classified"
    /\ UNCHANGED << taskIdx, workflow, step_data, local, agent, output_files,
                    clock, exc, trace_files, kills, errors >>

\* lines 109-110: the call raises
ClassifyRaises ==
    /\ pc = "classify"
    /\ IsLoginPageRaises(local.current_url, local.current_title)
    /\ exc' = <<"AttributeError">>
    /\ pc' = "classify_raised"
    /\ UNCHANGED << taskIdx, workflow, step_data, local, agent, output_files,
                    clock, result, trace_files, kills, errors >>

ClassifierNext == ClassifyReturns \/ ClassifyRaises

ClassifierSpec == ClassifierInit /\ [][ClassifierNext]_vars

\* a missing argument counts as the empty string
OrEmpty(s) == IF s = None THEN <<>> ELSE s

\* p occurs in s, letter case ignored
OccursIgnoringCase(s, p) ==
    \E k \in 0..(Len(s) - Len(p)) :
        \A i \in 1..Len(p) : LowerChar(s[k + i]) = LowerChar(p[i])

\* C13: is_login_page is total: for every address and title, missing ones
\* included (they count as empty), the call returns without raising, and
\* it returns true exactly if the address holds a URL pattern or the title
\* holds an indicator, case-insensitively; empty/empty gives false.
C13_ClassifierTotalAndExact ==
    pc # "classify" =>
        /\ pc = "classified"
        /\ (result = "True") <=>
              \/ \E p \in LOGIN_URL_PATTERNS :
                    OccursIgnoringCase(OrEmpty(local.current_url), p)
              \/ \E p \in LOGIN_PAGE_INDICATORS :
                    OccursIgnoringCase(OrEmpty(local.current_title), p)

SameEpisode == workflow'.task_id = workflow.task_id

LatchSet == SameEpisode /\ ~step_data.login_handled /\ step_data'.login_handled

ManualAppended == Appends /\ Appended.required_manual_login

C14_Step ==
    \* the wait starts only once pause() has returned
    /\ pc' = "await_input" => (pc = "pause" /\ ~agent.paused /\ agent'.paused)
    \* resume() is reached only from the wait, and still paused
    /\ pc' = "resume" => (pc = "await_input" /\ agent'.paused)
    \* resume() is called once: the call ends the handoff either way
    /\ pc = "resume" => pc' = "run"
    \* latch and manual record are written together, by the step in which
    \* resume() returned
    /\ (LatchSet \/ ManualAppended) =>
          /\ pc = "resume"
          /\ agent.paused /\ ~agent'.paused
          /\ LatchSet /\ ManualAppended
          /\ ~step_data'.waiting_for_login

\* C14: within a handoff the order is pause, acknowledgment, resume, latch,
\* manual record: resume is never invoked before the acknowledgment nor
\* without a pause before it, it is invoked once per handoff, and latch
\* and record are written only after resume has returned.
C14_HandoffOrder == [][C14_Step]_vars

\* a handoff that ran to its end: the hook is back in the run loop, the
\* agent is resumed, the latch is set and the last record is the manual one
C14_Witness ==
    /\ pc = "run"
    /\ ~agent.paused
    /\ step_data.login_handled
    /\ Len(steps) > 0
    /\ steps[Len(steps)].required_manual_login

\* the hook decides to hand over: it goes on to pause() and the wait
StartsSuspension == pc = "observe" /\ pc' = "pause"

C15_Step ==
    StartsSuspension =>
        /\ is_login_page(local'.current_url, local'.current_title)
        /\ ~step_data.login_handled
        /\ ~step_data.waiting_for_login

\* C15: a suspension (pause and wait) is started only when the classifier
\* matches, login_handled is false and the controller is RUNNING, that is,
\* not already marked as waiting for the human.
C15_SuspendOnlyWhenRunning == [][C15_Step]_vars

C16_Step ==
    (SameEpisode /\ step_data.login_handled) =>
        /\ step_data'.login_handled
        /\ pc' \notin {"pause", "await_input", "resume"}
        /\ agent'.paused = agent.paused
        /\ pc = "observe" => pc' \in {"screenshot", "run"}

\* C16: login_handled is a one-shot latch: within an episode it never goes
\* back to false, and once it is set a notification whose page still
\* matches takes the ordinary path (screenshot, ordinary record) with no
\* pause and no wait for the human.
C16_LatchIsMonotone == [][C16_Step]_vars

\* with the latch set, a matching page has been sent on to the screenshot
C16_Witness ==
    /\ pc = "screenshot"
    /\ step_data.login_handled
    /\ is_login_page(local.current_url, local.current_title)

C17_Step ==
    pc = "await_input" =>
        /\ pc' = "resume"
        /\ workflow' = workflow
        /\ agent' = agent
        /\ trace_files' = trace_files
        /\ taskIdx' = taskIdx

\* C17: once the controller waits for the human, the only step that ends
\* the wait is the acknowledgment; until then no record is appended,
\* resume is not invoked, the episode is neither finalized nor written and
\* no later task is started.
C17_WaitEndsOnlyByAck == [][C17_Step]_vars

\* an episode is in flight: execute_task has been entered and not left
InFlight == pc \notin {"main", "sleep", "done", "classify", "classified", "classify_raised"}

C18_Step ==
    \* one episode at a time: the only live workflow is that of the task
    \* the loop is at, and no later task has a trace yet
    /\ workflow.task_id \in {0, taskIdx}
    /\ \A t \in 1..NumTasks : (t > taskIdx \/ (t = taskIdx /\ InFlight)) =>
                                 ~trace_files[t].written
    \* every episode starts from fresh controller state
    /\ (pc = "main" /\ pc' # "main" /\ pc' # "done") =>
          /\ step_data' = NewStepData
          /\ workflow'.steps = <<>>
          /\ workflow'.task_id = taskIdx
          /\ output_files' = {}
    \* whatever earlier episodes did, the first matching page of an
    \* episode is handed to the human
    /\ (pc = "observe" /\ pc' # "run" /\ ManualRecords = {}
          /\ is_login_page(local'.current_url, local'.current_title)) =>
          pc' = "pause"

\* C18: episodes run one after the other and share no controller state:
\* each starts with counter 0, login_handled false and no steps, and a
\* match in a later episode leads to a handoff even if an earlier episode
\* already had one.
C18_EpisodesAreIsolated == [][C18_Step]_vars

\* a later episode waits for the human although an earlier one, already
\* written, had its handoff
C18_Witness ==
    /\ pc = "await_input"
    /\ taskIdx > 1
    /\ trace_files[taskIdx - 1].manual_login

\* the records that reference a screenshot
WithScreenshot == { i \in 1..Len(steps) : steps[i].screenshot # <<>> }

\* name is "step_", three decimal digits that spell n, ".png"
IsPadded3NameOf(name, n) ==
    /\ Len(name) = 5
    /\ name[1] = "step_"
    /\ name[5] = ".png"
    /\ \A k \in 2..4 : name[k] \in 0..9
    /\ 100 * name[2] + 10 * name[3] + name[4] = n

\* C19: every record with a screenshot reference names a file that is in
\* the episode's directory, the name is the width-3 zero-padded form of
\* the record's own step_number, and no two records name the same file.
C19_RecordsNameTheirFiles ==
    /\ \A i \in WithScreenshot :
          /\ steps[i].screenshot \in output_files
          /\ IsPadded3NameOf(steps[i].screenshot, steps[i].step_number)
    /\ \A i, j \in WithScreenshot :
          steps[i].screenshot = steps[j].screenshot => i = j

\* a trace with two captured screenshots
C19_Witness == Cardinality(WithScreenshot) >= 2

\* C20: when the trace is written the terminal fields agree: completed_at
\* is set; success = true comes with final_result and
\* total_duration_seconds set and error_summary unset; success = false
\* comes with error_summary set.
C20_TerminalFieldsAgree ==
    pc = "persist" =>
        /\ workflow.completed_at # -1
        /\ workflow.success =>
              /\ workflow.final_result # None
              /\ workflow.total_duration_seconds # -1
              /\ workflow.error_summary = None
        /\ ~workflow.success => workflow.error_summary # None

\* the trace is about to be written on the path where str(result) raised
\* after success had been set
C20_Witness ==
    /\ pc = "persist"
    /\ exc = <<"str">>
    /\ ~workflow.success

====
